---- MODULE Spec2Model ----
(***************************************************************************)
(* Press-release scraper: the list crawl (extract_links.py) and the        *)
(* content backfill (extract_content.py) over one SQLite table.            *)
(*                                                                         *)
(* The table press_releases is a sequence of rows in rowid (= id) order.   *)
(* Each sqlite3 connection has a working copy while a transaction is open  *)
(* (Python's sqlite3 opens one implicitly before INSERT/UPDATE); commit    *)
(* publishes the working copy, close or a crash discards it.               *)
(***************************************************************************)
EXTENDS Integers, Sequences, FiniteSets, TLC

VARIABLES
    db,             \* committed (durable) table: sequence of rows, id ascending
    work,           \* per connection: [open, tbl], the uncommitted working copy
    site,           \* upstream listing pages: page number -> response
    upstream,       \* how detail pages answer: "healthy", "down" or "any"
    bodies,         \* the texts the detail pages' containers hold
    \* --- scrape_and_save_pages
    cpc,            \* position of the list crawl
    start_page, end_page,
    page_num,       \* loop variable of "for page_num in range(...)"
    page_data,      \* list returned by extract_communication_data
    idx,            \* position of "for item in data" (1-based)
    saved_count,    \* save_page_to_sqlite's local counter
    total_saved,    \* scrape_and_save_pages's accumulator
    log,            \* trace of the crawl's GETs and sleeps in this run
    run,            \* number of the current scrape_and_save_pages call
    snap,           \* the committed table when the current run started
    \* --- update_press_release_content
    bpc,            \* position of the backfill
    limit,          \* the limit argument (None or an integer)
    entries,        \* cursor.fetchall() of the current batch
    bi,             \* position of "for release_id, url in entries" (1-based)
    updated_count, total_processed,
    visited,        \* ids already processed earlier in this invocation
    nulls_at_start, \* rows with NULL content when this invocation started
    \* --- extract_page_content
    fpc,            \* "idle", "loop" (inside the while), "returned"
    furl,           \* url argument
    max_retries,    \* max_retries argument
    retries,        \* local counter of failed attempts
    attempts,       \* number of session.get calls made by this call
    fresult         \* return value (None or the text)

storeVars == <<db, work>>
envVars   == <<site, upstream, bodies>>
crawlVars == <<cpc, start_page, end_page, page_num, page_data, idx,
               saved_count, total_saved, log, run, snap>>
bfVars    == <<bpc, limit, entries, bi, updated_count, total_processed,
               visited, nulls_at_start>>
fetchVars == <<fpc, furl, max_retries, retries, attempts, fresult>>
vars      == <<db, work, site, upstream, bodies,
               cpc, start_page, end_page, page_num, page_data, idx,
               saved_count, total_saved, log, run, snap,
               bpc, limit, entries, bi, updated_count, total_processed,
               visited, nulls_at_start,
               fpc, furl, max_retries, retries, attempts, fresult>>

----------------------------------------------------------------------------
(* Bounds of the model *)

MaxPage == 1            \* listing pages are 0..MaxPage
MaxRuns == 2            \* consecutive calls of scrape_and_save_pages
MaxRows == 6            \* rows of the table when a backfill-only run starts
MaxLimit == 2           \* caps tried for update_press_release_content
MaxRetriesArg == 4      \* max_retries arguments tried for extract_page_content
MaxCount == 2           \* total_processed stops counting here when limit is None

(* Program constants *)

batch_size == 5                 \* extract_content.py:70
default_max_retries == 3        \* extract_content.py:8

None == -1                      \* Python's None where an integer is expected
NULL == "NULL"                  \* SQL NULL / Python None in the content column
NoText == "None"                \* extract_page_content returning None
Texts == {"t1", "t2"}           \* bodies a detail page's container can hold
base_url == "https://press.comune.fi.it"

Min(a, b) == IF a < b THEN a ELSE b

----------------------------------------------------------------------------
(* URLs and ids *)

\* urljoin(base_url, relative_url): the href keeps its path under the base.
urljoin(base, href) == [host |-> base, path |-> href.path, num |-> href.num]

\* re.search(r'/comunicato/(\d+)', url): int(group 1), or None.
extract_comunicato_id(url) ==
    IF url.path = "comunicato" THEN url.num ELSE None

\* Python truthiness of "if comunicato_id:" (None and 0 are falsy).
TruthyId(id) == id # None /\ id # 0

\* Python truthiness of "if content:" (None and "" are falsy).
TruthyText(t) == t # NoText /\ t # ""

\* Python truthiness of "if limit" (None and 0 are falsy).
TruthyLimit(l) == l # None /\ l # 0

----------------------------------------------------------------------------
(* The table *)

Ids(tbl) == {tbl[i].id : i \in 1..Len(tbl)}

HasId(tbl, id) == \E i \in 1..Len(tbl) : tbl[i].id = id

RowOf(tbl, id) == tbl[CHOOSE i \in 1..Len(tbl) : tbl[i].id = id]

\* A new row goes after the rows whose rowid is not larger.
InsertSorted(tbl, row) ==
    LET k == Cardinality({i \in 1..Len(tbl) : tbl[i].id <= row.id})
    IN  SubSeq(tbl, 1, k) \o <<row>> \o SubSeq(tbl, k + 1, Len(tbl))

\* A faulty insert: no primary-key conflict check.
InsertNoConflictCheck(tbl, row) == InsertSorted(tbl, row)

\* A faulty insert: INSERT OR REPLACE.
InsertOrReplace(tbl, row) ==
    IF HasId(tbl, row.id)
    THEN [i \in 1..Len(tbl) |-> IF tbl[i].id = row.id THEN row ELSE tbl[i]]
    ELSE InsertSorted(tbl, row)

\* INSERT OR IGNORE INTO press_releases (id, url, title, date, content).
InsertOrIgnore(tbl, row) ==
    IF HasId(tbl, row.id) THEN tbl ELSE InsertSorted(tbl, row)

\* A faulty statement: the UPDATE also overwrites the title.
UpdateContentAndTitle(tbl, id, text) ==
    [i \in 1..Len(tbl) |->
        IF tbl[i].id = id THEN [tbl[i] EXCEPT !.content = text, !.title = text]
        ELSE tbl[i]]

\* UPDATE press_releases SET content = ? WHERE id = ?
UpdateContent(tbl, id, text) ==
    [i \in 1..Len(tbl) |->
        IF tbl[i].id = id THEN [tbl[i] EXCEPT !.content = text] ELSE tbl[i]]

IsMissing(row) == row.content = NULL

\* A faulty selection: no WHERE clause.
SelectAll(tbl, n) ==
    LET proj == [i \in 1..Len(tbl) |-> [id |-> tbl[i].id, url |-> tbl[i].url]]
    IN  IF n < 0 THEN proj ELSE SubSeq(proj, 1, Min(n, Len(proj)))

\* SELECT id, url FROM press_releases WHERE content IS NULL LIMIT n
\* (a table scan, so in rowid order; a negative LIMIT is no limit).
SelectMissing(tbl, n) ==
    LET miss == SelectSeq(tbl, IsMissing)
        proj == [i \in 1..Len(miss) |-> [id |-> miss[i].id, url |-> miss[i].url]]
    IN  IF n < 0 THEN proj ELSE SubSeq(proj, 1, Min(n, Len(proj)))

Conns == {"crawl", "backfill"}
NoTxn == [open |-> FALSE, tbl |-> <<>>]

\* What connection c reads: its own uncommitted changes, else the committed table.
View(c) == IF work[c].open THEN work[c].tbl ELSE db

\* A write needs the database's write lock: no other connection mid-transaction.
CanWrite(c) == \A o \in Conns \ {c} : ~work[o].open

\* A faulty commit: nothing is published.
CommitNothing(c) == db

\* conn.commit(): the committed table after connection c commits.
Committed(c) == View(c)

----------------------------------------------------------------------------
(* The upstream site: listing pages *)

Href(path, n) == [path |-> path, num |-> n]

\* The datetime attribute of a <time> element: its text, whether it has the
\* shape %Y-%m-%dT%H:%M:%SZ, and the calendar date it then denotes.
NoTime  == [raw |-> "", iso |-> FALSE, ymd |-> ""]
IsoTime == [raw |-> "2024-01-01T10:30:00Z", iso |-> TRUE, ymd |-> "2024-01-01"]
BadTime == [raw |-> "01/02/2024", iso |-> FALSE, ymd |-> ""]

\* One <li class="views-row">: whether the title span holds an <a>, whether
\* the <a> has an href, the href, the link text and the datetime attribute.
Li(link, has_href, href, title, time) ==
    [link |-> link, has_href |-> has_href, href |-> href, title |-> title, time |-> time]

L1A == Li(TRUE, TRUE, Href("comunicato", 1), "A", IsoTime)
L1B == Li(TRUE, TRUE, Href("comunicato", 1), "B", BadTime)
L2  == Li(TRUE, TRUE, Href("comunicato", 2), "B", NoTime)
L0  == Li(TRUE, TRUE, Href("comunicato", 0), "A", IsoTime)
LN  == Li(TRUE, TRUE, Href("node", 2), "A", IsoTime)
LX  == Li(FALSE, FALSE, Href("", None), "", NoTime)
LH  == Li(TRUE, FALSE, Href("", None), "A", NoTime)

Page(raised, status, container, rows) ==
    [raised |-> raised, status |-> status, container |-> container, rows |-> rows]

\* What a GET of a listing page can answer: a network exception, a non-200
\* status, or 200 with some markup.
PageResponses ==
    { Page(TRUE, 0, FALSE, <<>>),
      Page(FALSE, 500, FALSE, <<>>),
      Page(FALSE, 200, FALSE, <<>>),
      Page(FALSE, 200, TRUE, <<>>),
      Page(FALSE, 200, TRUE, <<L1A>>),
      Page(FALSE, 200, TRUE, <<L1A, L2>>),
      Page(FALSE, 200, TRUE, <<L1B, LX, L1A>>),
      Page(FALSE, 200, TRUE, <<L2, LN, L0>>),
      Page(FALSE, 200, TRUE, <<L2, LH>>) }

PageNums == 0..MaxPage

----------------------------------------------------------------------------
(* extract_communication_data *)

\* strptime(date_text, '%Y-%m-%dT%H:%M:%SZ').strftime('%Y-%m-%d'), the raw
\* text when strptime raises ValueError, '' when there is no datetime.
FormatDate(time) ==
    IF time.raw = "" THEN ""
    ELSE IF time.iso THEN time.ymd ELSE time.raw

HasLink(li) == li.link

\* url_elem['href'] raises KeyError on an <a> without href.
ParseRaises(page) ==
    page.container /\ \E i \in 1..Len(page.rows) :
        page.rows[i].link /\ ~page.rows[i].has_href

extract_communication_data(page) ==
    IF ~page.container THEN <<>>
    ELSE LET items == SelectSeq(page.rows, HasLink)
         IN  [i \in 1..Len(items) |->
                [url   |-> urljoin(base_url, items[i].href),
                 title |-> items[i].title,
                 date  |-> FormatDate(items[i].time)]]

\* The row save_page_to_sqlite inserts for an item (content is None).
NewRow(item) ==
    [id |-> extract_comunicato_id(item.url), url |-> item.url,
     title |-> item.title, date |-> item.date, content |-> NULL]

----------------------------------------------------------------------------
(* scrape_and_save_pages with save_page_to_sqlite inlined *)

Get(p)   == [op |-> "get", page |-> p]
Sleep(p) == [op |-> "sleep", page |-> p]

\* A faulty handler: a failed page ends the loop.
AbortOnFailure(p) == end_page + 1

\* A faulty handler: the failed page is requested again.
RetrySamePage(p) == p

\* The page the loop turns to after page p failed ("continue with the next
\* page": the except clause and the non-200 branch fall through to the for).
AfterFailedPage(p) == p + 1

\* for page_num in range(...): session.get, status check, parse, and
\* save_page_to_sqlite up to its first INSERT.
CGet ==
    /\ cpc = "loop"
    /\ page_num <= end_page
    /\ LET r == site[page_num] IN
       IF r.raised \/ r.status # 200 \/ ParseRaises(r)
       THEN /\ page_num' = AfterFailedPage(page_num)
            /\ log' = Append(log, Get(page_num))
            /\ UNCHANGED <<cpc, page_data, idx, saved_count, total_saved>>
       ELSE LET data == extract_communication_data(r) IN
            IF data = <<>>
            THEN \* "if not data: return 0", then time.sleep(2)
                 /\ page_num' = page_num + 1
                 /\ page_data' = data
                 /\ saved_count' = 0
                 /\ log' = Append(Append(log, Get(page_num)), Sleep(page_num))
                 /\ UNCHANGED <<cpc, idx, total_saved>>
            ELSE /\ page_data' = data
                 /\ idx' = 1
                 /\ saved_count' = 0
                 /\ cpc' = "insert"
                 /\ log' = Append(log, Get(page_num))
                 /\ UNCHANGED <<page_num, total_saved>>
    /\ UNCHANGED <<start_page, end_page, run, snap>>
    /\ UNCHANGED <<storeVars, envVars, bfVars, fetchVars>>

\* One iteration of "for item in data".
CInsert ==
    /\ cpc = "insert"
    /\ idx <= Len(page_data)
    /\ LET item == page_data[idx]
           comunicato_id == extract_comunicato_id(item.url)
       IN  IF TruthyId(comunicato_id)
           THEN /\ CanWrite("crawl")
                /\ work' = [work EXCEPT !["crawl"] =
                              [open |-> TRUE,
                               tbl  |-> InsertOrIgnore(View("crawl"), NewRow(item))]]
                /\ saved_count' = saved_count + 1
           ELSE UNCHANGED <<work, saved_count>>
    /\ idx' = idx + 1
    /\ cpc' = IF idx + 1 > Len(page_data) THEN "commit" ELSE "insert"
    /\ UNCHANGED <<db, page_num, page_data, total_saved, log,
                   start_page, end_page, run, snap>>
    /\ UNCHANGED <<envVars, bfVars, fetchVars>>

\* conn.commit(), return saved_count, total_saved += saved_count, time.sleep(2).
CCommit ==
    /\ cpc = "commit"
    /\ db' = Committed("crawl")
    /\ work' = [work EXCEPT !["crawl"] = NoTxn]
    /\ total_saved' = total_saved + saved_count
    /\ log' = Append(log, Sleep(page_num))
    /\ page_num' = page_num + 1
    /\ cpc' = "loop"
    /\ UNCHANGED <<page_data, idx, saved_count, start_page, end_page, run, snap>>
    /\ UNCHANGED <<envVars, bfVars, fetchVars>>

\* The range is exhausted: finally conn.close(), return total_saved.
CFinish ==
    /\ cpc = "loop"
    /\ page_num > end_page
    /\ work' = [work EXCEPT !["crawl"] = NoTxn]
    /\ cpc' = "done"
    /\ UNCHANGED <<db, page_num, page_data, idx, saved_count, total_saved, log,
                   start_page, end_page, run, snap>>
    /\ UNCHANGED <<envVars, bfVars, fetchVars>>

\* The process dies: what the connection had not committed is gone.
CCrash ==
    /\ cpc \in {"loop", "insert", "commit"}
    /\ work' = [work EXCEPT !["crawl"] = NoTxn]
    /\ cpc' = "crashed"
    /\ UNCHANGED <<db, page_num, page_data, idx, saved_count, total_saved, log,
                   start_page, end_page, run, snap>>
    /\ UNCHANGED <<envVars, bfVars, fetchVars>>

\* scrape_and_save_pages is called again over the same range.
CRerun ==
    /\ cpc = "done"
    /\ run < MaxRuns
    /\ run' = run + 1
    /\ snap' = db
    /\ cpc' = "loop"
    /\ page_num' = start_page
    /\ page_data' = <<>>
    /\ idx' = 1
    /\ saved_count' = 0
    /\ total_saved' = 0
    /\ log' = <<>>
    /\ UNCHANGED <<start_page, end_page>>
    /\ UNCHANGED <<storeVars, envVars, bfVars, fetchVars>>

CrawlStep == CGet \/ CInsert \/ CCommit \/ CFinish

----------------------------------------------------------------------------
(* The upstream site: detail pages *)

Detail(raised, status, container, text) ==
    [raised |-> raised, status |-> status, container |-> container, text |-> text]

\* 200 with the view-content div holding some text.
BodyResponses == {Detail(FALSE, 200, TRUE, t) : t \in bodies}

\* A network exception or a non-200 status.
FailureResponses == {Detail(TRUE, 0, FALSE, ""), Detail(FALSE, 503, FALSE, "")}

\* 200 without the div, or with a div that holds no text.
HollowResponses == {Detail(FALSE, 200, FALSE, ""), Detail(FALSE, 200, TRUE, "")}

\* What one GET of a detail page can answer.
DetailResponses ==
    CASE upstream = "healthy" -> BodyResponses
      [] upstream = "down"    -> FailureResponses
      [] OTHER                -> BodyResponses \cup FailureResponses \cup HollowResponses

----------------------------------------------------------------------------
(* extract_page_content *)

\* A faulty loop condition: one attempt too many.
KeepTryingInclusive(r, m) == r <= m

\* while retries < max_retries
KeepTrying(r, m) == r < m

\* One iteration of the while: session.get, then return or count a retry.
FetchAttempt ==
    /\ fpc = "loop"
    /\ KeepTrying(retries, max_retries)
    /\ \E resp \in DetailResponses :
        /\ attempts' = attempts + 1
        /\ IF resp.raised \/ resp.status # 200
           THEN \* except Exception / the else branch: retries += 1, sleep
                /\ retries' = retries + 1
                /\ UNCHANGED <<fpc, fresult>>
           ELSE \* view_content.get_text(" ", strip=True), or None
                /\ fresult' = IF resp.container THEN resp.text ELSE NoText
                /\ fpc' = "returned"
                /\ UNCHANGED retries
    /\ UNCHANGED <<furl, max_retries>>
    /\ UNCHANGED <<storeVars, envVars, crawlVars, bfVars>>

\* The while condition is false: return None.
FetchExhausted ==
    /\ fpc = "loop"
    /\ ~KeepTrying(retries, max_retries)
    /\ fresult' = NoText
    /\ fpc' = "returned"
    /\ UNCHANGED <<furl, max_retries, retries, attempts>>
    /\ UNCHANGED <<storeVars, envVars, crawlVars, bfVars>>

FetchStep == FetchAttempt \/ FetchExhausted

\* content = extract_page_content(url): the call with its default arguments.
CallFetch(url) ==
    /\ fpc' = "loop"
    /\ furl' = url
    /\ max_retries' = default_max_retries
    /\ retries' = 0
    /\ attempts' = 0
    /\ fresult' = NoText

----------------------------------------------------------------------------
(* update_press_release_content *)

\* The limit arguments tried: none, small caps, and a cap one row past a
\* full batch.
SmallLimits == {None} \cup (1..MaxLimit)
Limits == SmallLimits \cup {batch_size + 1}

CountMissing(tbl) == Len(SelectSeq(tbl, IsMissing))

\* "if limit and total_processed + batch_size > limit"
CurrentBatchSize(lim, processed) ==
    IF TruthyLimit(lim) /\ processed + batch_size > lim
    THEN lim - processed
    ELSE batch_size

\* A faulty tally: the row is not counted.
FrozenCount(lim, processed) == processed

\* total_processed += 1.  Without a cap the counter only feeds the final
\* print, and the model stops counting at MaxCount.
Bump(lim, processed) ==
    IF TruthyLimit(lim) THEN processed + 1 ELSE Min(processed + 1, MaxCount)

\* "if limit and total_processed >= limit: break"
AtLimit(lim, processed) == TruthyLimit(lim) /\ processed >= lim

\* update_press_release_content(db_file, limit) is entered: connect, and
\* the counters are zero.
Enter(caps) ==
    /\ limit' \in caps
    /\ bpc' = "select"
    /\ entries' = <<>>
    /\ bi' = 1
    /\ updated_count' = 0
    /\ total_processed' = 0
    /\ visited' = {}
    /\ nulls_at_start' = CountMissing(db)
    /\ UNCHANGED <<storeVars, envVars, crawlVars, fetchVars>>

\* The first invocation.
BStart == bpc = "idle" /\ Enter(SmallLimits)

\* A further invocation after one has returned.
BInvoke == bpc = "done" /\ Enter(Limits)

\* The head of "while True": the SELECT, and either the break on an empty
\* batch (then conn.close and return) or the call for the first entry.
BSelect ==
    /\ bpc = "select"
    /\ LET got == SelectMissing(View("backfill"),
                                CurrentBatchSize(limit, total_processed))
       IN  /\ entries' = got
           /\ bi' = 1
           /\ IF got = <<>>
              THEN /\ bpc' = "done"
                   /\ work' = [work EXCEPT !["backfill"] = NoTxn]
                   /\ UNCHANGED fetchVars
              ELSE /\ bpc' = "fetch"
                   /\ CallFetch(got[1].url)
                   /\ UNCHANGED work
    /\ UNCHANGED <<db, limit, updated_count, total_processed, visited, nulls_at_start>>
    /\ UNCHANGED <<envVars, crawlVars>>

\* The tail of the for body: sleep, total_processed += 1, the two limit
\* breaks, then the next entry, or the next SELECT after the last one.
RowDone ==
    LET processed == Bump(limit, total_processed) IN
    /\ total_processed' = processed
    /\ visited' = visited \cup {entries[bi].id}
    /\ IF AtLimit(limit, processed)
       THEN /\ bpc' = "done"
            /\ fpc' = "idle"
            /\ UNCHANGED <<bi, furl, max_retries, retries, attempts, fresult>>
       ELSE IF bi < Len(entries)
       THEN /\ bpc' = "fetch"
            /\ bi' = bi + 1
            /\ CallFetch(entries[bi + 1].url)
       ELSE /\ bpc' = "select"
            /\ fpc' = "idle"
            /\ UNCHANGED <<bi, furl, max_retries, retries, attempts, fresult>>

\* extract_page_content has returned: "if content:" runs the UPDATE,
\* else the row is left as it is.
BAfterFetch ==
    /\ bpc = "fetch"
    /\ fpc = "returned"
    /\ IF TruthyText(fresult)
       THEN /\ CanWrite("backfill")
            /\ work' = [work EXCEPT !["backfill"] =
                          [open |-> TRUE,
                           tbl  |-> UpdateContent(View("backfill"),
                                                  entries[bi].id, fresult)]]
            /\ bpc' = "commit"
            /\ fpc' = "idle"
            /\ UNCHANGED <<bi, total_processed, visited,
                           furl, max_retries, retries, attempts, fresult>>
       ELSE /\ RowDone
            /\ UNCHANGED work
    /\ UNCHANGED <<db, limit, entries, updated_count, nulls_at_start>>
    /\ UNCHANGED <<envVars, crawlVars>>

\* conn.commit(), updated_count += 1, then the tail of the for body.
BCommit ==
    /\ bpc = "commit"
    /\ db' = Committed("backfill")
    /\ work' = [work EXCEPT !["backfill"] = NoTxn]
    /\ updated_count' = updated_count + 1
    /\ RowDone
    /\ UNCHANGED <<limit, entries, nulls_at_start>>
    /\ UNCHANGED <<envVars, crawlVars>>

BackfillStep == BSelect \/ BAfterFetch \/ BCommit

----------------------------------------------------------------------------
(* Initial states *)

StoredRow(id, title, content) ==
    [id |-> id, url |-> urljoin(base_url, Href("comunicato", id)),
     title |-> title, date |-> "2023-12-31", content |-> content]

CrawlIdle ==
    /\ cpc = "idle" /\ start_page = 0 /\ end_page = 0 /\ page_num = 0
    /\ page_data = <<>> /\ idx = 1 /\ saved_count = 0 /\ total_saved = 0
    /\ log = <<>> /\ run = 0 /\ snap = <<>>
    /\ site = [p \in PageNums |-> Page(FALSE, 200, FALSE, <<>>)]

CrawlStart ==
    /\ site \in [PageNums -> PageResponses]
    /\ start_page \in PageNums
    /\ end_page \in start_page..MaxPage
    /\ cpc = "loop" /\ page_num = start_page
    /\ page_data = <<>> /\ idx = 1 /\ saved_count = 0 /\ total_saved = 0
    /\ log = <<>> /\ run = 1 /\ snap = db

BackfillIdle ==
    /\ bpc = "idle" /\ limit = None /\ entries = <<>> /\ bi = 1
    /\ updated_count = 0 /\ total_processed = 0
    /\ visited = {} /\ nulls_at_start = 0

FetchIdle ==
    /\ fpc = "idle" /\ furl = urljoin(base_url, Href("", None))
    /\ max_retries = default_max_retries
    /\ retries = 0 /\ attempts = 0 /\ fresult = NoText

\* The list crawl alone, over a table that is empty or holds an older row
\* whose content the backfill has already set.
InitCrawl ==
    /\ db \in {<<>>, <<StoredRow(1, "Z", "t1")>>}
    /\ work = [c \in Conns |-> NoTxn]
    /\ CrawlStart
    /\ BackfillIdle
    /\ FetchIdle
    /\ upstream = "any"
    /\ bodies = Texts

NextCrawl == CGet \/ CInsert \/ CCommit \/ CFinish \/ CCrash \/ CRerun

SpecCrawl == InitCrawl /\ [][NextCrawl]_vars /\ WF_vars(CrawlStep)

----------------------------------------------------------------------------
(* Properties of the list crawl *)

UniqueIds(tbl) ==
    \A i, j \in 1..Len(tbl) : tbl[i].id = tbl[j].id => i = j

\* Every row of old is a row of new, field for field.
Preserved(old, new) ==
    \A i \in 1..Len(old) : \E j \in 1..Len(new) : new[j] = old[i]

\* The ids save_page_to_sqlite executes an INSERT for, given a page's answer.
InsertedIds(r) ==
    IF r.raised \/ r.status # 200 \/ ParseRaises(r) THEN {}
    ELSE LET data == extract_communication_data(r)
         IN  {id \in {extract_comunicato_id(data[i].url) : i \in 1..Len(data)} :
                TruthyId(id)}

\* Ids of the pages of this run whose save_page_to_sqlite call has returned.
SavedPagesIds == UNION {InsertedIds(site[p]) : p \in start_page..(page_num - 1)}

\* Ids of the INSERT statements executed so far for the page in hand.
ExecutedNowIds ==
    {id \in {extract_comunicato_id(page_data[i].url) : i \in 1..(idx - 1)} :
        TruthyId(id)}

PageFails(p) == site[p].raised \/ site[p].status # 200 \/ ParseRaises(site[p])

GetPages == SelectSeq(log, LAMBDA e : e.op = "get")

\* C3: the table never holds two rows with one id, and a save never changes
\* or removes a row that is already stored (an insert of a stored id is a
\* no-op, whatever title, url or date the incoming record carries).
C3_Dedup ==
    /\ [](UniqueIds(db) /\ UniqueIds(View("crawl")))
    /\ [][Preserved(db, db')]_vars
    /\ [][cpc = "insert" /\ cpc' # "crashed"
            => Preserved(View("crawl"), View("crawl")')]_vars

\* C3 witness: the record just saved carries an id that is already stored
\* under another title.
C3_Witness ==
    /\ cpc \in {"insert", "commit"}
    /\ idx > 1
    /\ LET item == page_data[idx - 1]
           id == extract_comunicato_id(item.url)
       IN  /\ TruthyId(id)
           /\ HasId(View("crawl"), id)
           /\ RowOf(View("crawl"), id).title # item.title

\* C6 as stated: after a crash every record whose INSERT was executed is in
\* the durable table.
C6_PerRecordDurable ==
    cpc = "crashed" => (SavedPagesIds \cup ExecutedNowIds) \subseteq Ids(db)

\* C6 amended: the records of every page whose save_page_to_sqlite call has
\* returned (so its commit ran) are in the durable table, at every moment
\* and so after a crash.
C6_PerPageDurable == run >= 1 => SavedPagesIds \subseteq Ids(db)

\* C6 witness: a crash between two records of a page, after an earlier page
\* was saved: the earlier page's rows are durable, the executed insert is not.
C6_Witness ==
    /\ cpc = "crashed"
    /\ SavedPagesIds # {}
    /\ idx > 1 /\ idx <= Len(page_data)
    /\ ~(ExecutedNowIds \subseteq Ids(db))

\* C7: when a second run over the same range, against the same answers, has
\* finished, the table is row for row the table the first run left.
C7_IdempotentDiscovery == (run >= 2 /\ cpc = "done") => db = snap

\* C7 witness: a finished second run that executed inserts.
C7_Witness == run = 2 /\ cpc = "done" /\ total_saved > 0 /\ Len(db) > 1

\* C8: the GETs of a run are for start_page, start_page + 1, ... in this
\* order; a run that has finished has requested every page of the range once
\* and holds the records of every page that answered, failed pages
\* notwithstanding; a run that does not crash finishes.
C8_OrderedFaultIsolated ==
    /\ [](\A i \in 1..Len(GetPages) : GetPages[i].page = start_page + i - 1)
    /\ [](cpc = "done" =>
            /\ Len(GetPages) = end_page - start_page + 1
            /\ \A p \in start_page..end_page : InsertedIds(site[p]) \subseteq Ids(db))
    /\ (cpc \in {"loop", "insert", "commit"}) ~> (cpc \in {"done", "crashed"})

\* C8 witness: a finished run in which a page failed and a later page's
\* records were saved.
C8_Witness ==
    /\ cpc = "done"
    /\ \E p, q \in start_page..end_page :
        /\ p < q
        /\ PageFails(p)
        /\ InsertedIds(site[q]) # {}
        /\ InsertedIds(site[q]) \subseteq Ids(db)

\* C10 as stated: the count save_page_to_sqlite is about to return is the
\* number of rows the call inserted, and the run's total is the growth of
\* the table during the run.
C10_InsertReporting ==
    /\ cpc = "commit" => saved_count = Len(View("crawl")) - Len(db)
    /\ cpc = "done" => total_saved = Len(db) - Len(snap)

----------------------------------------------------------------------------
(* The backfill alone, and extract_page_content alone *)

\* A table of n rows, ids 1..n, none with content yet.
FreshTable(n) == [i \in 1..n |-> StoredRow(i, "A", NULL)]

InitBackfill ==
    /\ \E n \in 0..MaxRows : db = FreshTable(n)
    /\ work = [c \in Conns |-> NoTxn]
    /\ CrawlIdle
    /\ upstream \in {"healthy", "down", "any"}
    /\ bodies = {"t1"}
    /\ limit \in Limits
    /\ bpc = "select" /\ entries = <<>> /\ bi = 1
    /\ updated_count = 0 /\ total_processed = 0
    /\ visited = {} /\ nulls_at_start = Len(db)
    /\ FetchIdle

NextBackfill == BInvoke \/ BSelect \/ BAfterFetch \/ BCommit \/ FetchAttempt \/ FetchExhausted

SpecBackfill == InitBackfill /\ [][NextBackfill]_vars /\ WF_vars(NextBackfill)

\* One call extract_page_content(url, max_retries) for each argument value.
InitFetch ==
    /\ db = <<>>
    /\ work = [c \in Conns |-> NoTxn]
    /\ CrawlIdle
    /\ BackfillIdle
    /\ upstream \in {"healthy", "down", "any"}
    /\ bodies = Texts
    /\ fpc = "loop"
    /\ furl \in {urljoin(base_url, Href("comunicato", n)) : n \in 1..2}
    /\ max_retries \in 1..MaxRetriesArg
    /\ retries = 0 /\ attempts = 0 /\ fresult = NoText

NextFetch == FetchAttempt \/ FetchExhausted

SpecFetch == InitFetch /\ [][NextFetch]_vars /\ WF_vars(NextFetch)

----------------------------------------------------------------------------
(* The two programs side by side on one database file *)

\* The listing pages tried when both programs run: a failing page, a page
\* with one release, a page with that release under another title and a
\* second one.
SpecPages ==
    { Page(FALSE, 500, FALSE, <<>>),
      Page(FALSE, 200, TRUE, <<L1A>>),
      Page(FALSE, 200, TRUE, <<L1B, L2>>) }

Init ==
    /\ db \in {<<>>, <<StoredRow(1, "Z", "t1")>>}
    /\ work = [c \in Conns |-> NoTxn]
    /\ site \in [PageNums -> SpecPages]
    /\ start_page = 0 /\ end_page = MaxPage
    /\ cpc = "loop" /\ page_num = start_page
    /\ page_data = <<>> /\ idx = 1 /\ saved_count = 0 /\ total_saved = 0
    /\ log = <<>> /\ run = 1 /\ snap = db
    /\ BackfillIdle
    /\ FetchIdle
    /\ upstream = "any"
    /\ bodies = Texts

Next ==
    \/ CGet \/ CInsert \/ CCommit \/ CFinish \/ CCrash
    \/ BStart \/ BSelect \/ BAfterFetch \/ BCommit
    \/ FetchAttempt \/ FetchExhausted

Spec == Init /\ [][Next]_vars /\ WF_vars(CrawlStep) /\ WF_vars(BackfillStep \/ FetchStep)

----------------------------------------------------------------------------
(* Properties of the backfill and of the fetcher *)

\* C1 as stated: in an uncapped run over more rows than a batch holds, no
\* row is processed again by the same run, and when the run ends no row
\* that is still without content was left unvisited.
C1_BackfillExhaustion ==
    (limit = None /\ nulls_at_start > batch_size) =>
        /\ bpc = "fetch" => entries[bi].id \notin visited
        /\ bpc = "done" =>
             \A i \in 1..Len(db) : db[i].content = NULL => db[i].id \in visited

\* C2 as stated: an uncapped run reaches the empty pull and ends.
C2_BackfillTerminates ==
    (limit = None /\ bpc \in {"select", "fetch", "commit"}) ~> (bpc = "done")

\* C4: a committed content is never removed nor replaced, whichever program
\* takes the step, and the row the backfill is fetching has no content.
C4_ContentMonotone ==
    /\ [][\A i \in 1..Len(db) :
            db[i].content # NULL =>
                \E j \in 1..Len(db') :
                    db'[j].id = db[i].id /\ db'[j].content = db[i].content]_vars
    /\ [](bpc = "fetch" =>
            /\ HasId(db, entries[bi].id)
            /\ RowOf(db, entries[bi].id).content = NULL)

\* C4 witness: the crawl has just re-inserted an id whose content the
\* backfill set in this run, while the backfill is fetching another row.
C4_Witness ==
    /\ cpc \in {"insert", "commit"}
    /\ idx > 1
    /\ bpc = "fetch"
    /\ updated_count >= 1
    /\ LET id == extract_comunicato_id(page_data[idx - 1].url)
       IN  /\ HasId(db, id)
           /\ RowOf(db, id).content # NULL
           /\ id \in visited

\* C5: against an endpoint whose every attempt fails, a call makes no more
\* than max_retries GETs, ends, and ends by returning None after exactly
\* max_retries GETs (a raised exception only counts as a failed attempt).
C5_RetryBound ==
    /\ [](upstream = "down" =>
            /\ attempts <= max_retries
            /\ fpc \in {"loop", "returned"}
            /\ fpc = "returned" => attempts = max_retries /\ fresult = NoText)
    /\ (upstream = "down") ~> (fpc = "returned")

\* C5 witness: a call with a budget of several attempts has used them all.
C5_Witness ==
    /\ upstream = "down"
    /\ fpc = "returned"
    /\ max_retries > 1
    /\ attempts = max_retries

\* C9: a capped run processes at most limit rows; when it ends it has
\* processed limit rows or no row without content remains (with every page
\* extractable: exactly min(limit, rows without content at the start));
\* it ends with nothing uncommitted and every update it counted committed;
\* and with every page extractable, successive invocations, whatever their
\* caps, eventually leave no row without content.
C9_CapAndResume ==
    /\ [](TruthyLimit(limit) =>
            /\ total_processed <= limit
            /\ Cardinality(visited) <= limit)
    /\ [](bpc = "done" /\ TruthyLimit(limit) =>
            /\ total_processed = limit \/ CountMissing(db) = 0
            /\ ~work["backfill"].open
            /\ updated_count = nulls_at_start - CountMissing(db)
            /\ upstream = "healthy" =>
                 /\ total_processed = Min(limit, nulls_at_start)
                 /\ Cardinality(visited) = Min(limit, nulls_at_start)
                 /\ updated_count = total_processed)
    /\ (upstream = "healthy") ~> (CountMissing(db) = 0)

\* C9 witness: a capped run has stopped at its cap having set content,
\* rows without content remain, and they all had extractable pages.
C9_Witness ==
    /\ bpc = "done"
    /\ upstream = "healthy"
    /\ TruthyLimit(limit)
    /\ total_processed = limit
    /\ updated_count = limit
    /\ CountMissing(db) > 0

----------------------------------------------------------------------------
(* Further properties of the list crawl *)

\* The GET of page p failed: an exception or a non-200 status.
FetchFails(p) == site[p].raised \/ site[p].status # 200

\* Number of GETs of page p in this run.
GetCount(p) == Len(SelectSeq(log, LAMBDA e : e.op = "get" /\ e.page = p))

\* C11 as stated: a page whose fetch failed was requested again before the
\* crawl moved on.
C11_ListRetry ==
    \A p \in start_page..(page_num - 1) :
        (p <= end_page /\ FetchFails(p)) => GetCount(p) >= 2

\* C11 amended: no page is requested twice in a run, and a page whose fetch
\* failed has had its single GET when the crawl has moved on.
C11_SingleAttempt ==
    /\ \A p \in PageNums : GetCount(p) <= 1
    /\ \A p \in start_page..(page_num - 1) :
        (p <= end_page /\ FetchFails(p)) => GetCount(p) = 1

\* C11 witness: a finished run in which a page's fetch failed, the page was
\* requested once and the next page was requested after it.
C11_Witness ==
    /\ cpc = "done"
    /\ \E p \in start_page..(end_page - 1) :
        /\ FetchFails(p)
        /\ GetCount(p) = 1
        /\ GetCount(p + 1) = 1

\* C13 as stated: every stored row has the id its url spells after
\* /comunicato/, and every entry of a saved page whose url has that shape is
\* stored under that id, whatever the number.
C13_IdPersistence ==
    /\ \A i \in 1..Len(db) :
        db[i].url.path = "comunicato" /\ db[i].id = db[i].url.num
    /\ \A p \in start_page..(page_num - 1) :
        (p <= end_page /\ ~PageFails(p)) =>
            LET data == extract_communication_data(site[p])
            IN  \A i \in 1..Len(data) :
                    data[i].url.path = "comunicato" => HasId(db, data[i].url.num)

\* C16 as stated: in the trace of a run every GET but the last is followed
\* by a sleep before the next GET.
C16_DelayBetweenRequests ==
    \A i \in 1..(Len(log) - 1) :
        log[i].op = "get" => log[i + 1].op = "sleep"

----------------------------------------------------------------------------
(* Further properties of the backfill *)

\* C14 as stated: when the backfill has finished with a row, the row's
\* content is the text of the container the fetch returned, whatever that
\* text is, and is null when the fetch returned nothing.
C14_PerRowOutcome ==
    [][ visited' # visited =>
          LET id == entries[bi].id IN
          /\ fresult # NoText => RowOf(db', id).content = fresult
          /\ fresult = NoText => RowOf(db', id).content = NULL ]_vars

\* A call update_press_release_content(limit=0) over a table of rows
\* without content.
InitZeroCap ==
    /\ \E n \in 0..MaxRows : db = FreshTable(n)
    /\ work = [c \in Conns |-> NoTxn]
    /\ CrawlIdle
    /\ upstream \in {"healthy", "down", "any"}
    /\ bodies = {"t1"}
    /\ limit = 0
    /\ bpc = "select" /\ entries = <<>> /\ bi = 1
    /\ updated_count = 0 /\ total_processed = 0
    /\ visited = {} /\ nulls_at_start = Len(db)
    /\ FetchIdle

NextZeroCap == BSelect \/ BAfterFetch \/ BCommit \/ FetchAttempt \/ FetchExhausted

SpecZeroCap == InitZeroCap /\ [][NextZeroCap]_vars /\ WF_vars(NextZeroCap)

\* C18 as stated: a run with limit = 0 makes no fetch, updates no row and
\* visits no row.
C18_ZeroCapIdle ==
    limit = 0 =>
        /\ attempts = 0
        /\ updated_count = 0 /\ total_processed = 0 /\ visited = {}
        /\ \A i \in 1..Len(db) : db[i].content = NULL

----------------------------------------------------------------------------
(* Properties of the two programs together *)

\* C17: a step of the list crawl keeps every stored row as it is and adds
\* only rows with null content; a step of the backfill keeps the number of
\* rows and the id, url, title and date of each; no step removes an id.
C17_WriteSets ==
    [][ /\ Ids(db) \subseteq Ids(db')
        /\ crawlVars' # crawlVars =>
             /\ Preserved(db, db')
             /\ \A j \in 1..Len(db') :
                    (\E i \in 1..Len(db) : db[i] = db'[j]) \/ db'[j].content = NULL
        /\ bfVars' # bfVars =>
             /\ Len(db') = Len(db)
             /\ \A i \in 1..Len(db) :
                    /\ db'[i].id = db[i].id /\ db'[i].url = db[i].url
                    /\ db'[i].title = db[i].title /\ db'[i].date = db[i].date ]_vars

\* C17 witness: the crawl has finished and stored rows, the backfill has set
\* the content of one of them and another is still without content.
C17_Witness ==
    /\ cpc = "done" /\ total_saved >= 2
    /\ updated_count >= 1
    /\ \E i, j \in 1..Len(db) :
        /\ db[i].content \in Texts /\ db[i].title # "Z"
        /\ db[j].content = NULL

----------------------------------------------------------------------------
(* Store write failures: cursor.execute or conn.commit raises *)

StoreError(p) == [op |-> "error", page |-> p]

\* A faulty handler: a failed save ends the crawl.
StopOnStoreError(p) == end_page + 1

\* The page the loop turns to after save_page_to_sqlite returned 0 on an
\* exception: the for loop goes on.
AfterStoreError(p) == p + 1

\* The except of save_page_to_sqlite: print, return 0 (the connection was
\* passed in and stays open); the caller adds 0, sleeps and goes on.  The
\* statements already executed for the page stay in the open transaction or
\* are rolled back with the failed one, as the engine decides.
SaveFails ==
    /\ \E kept \in BOOLEAN :
        work' = IF kept THEN work ELSE [work EXCEPT !["crawl"] = NoTxn]
    /\ saved_count' = 0
    /\ log' = Append(Append(log, StoreError(page_num)), Sleep(page_num))
    /\ page_num' = AfterStoreError(page_num)
    /\ cpc' = "loop"
    /\ UNCHANGED <<db, page_data, idx, total_saved, start_page, end_page, run, snap>>
    /\ UNCHANGED <<envVars, bfVars, fetchVars>>

\* The INSERT for the entry in hand raises.
CInsertFails ==
    /\ cpc = "insert"
    /\ idx <= Len(page_data)
    /\ TruthyId(extract_comunicato_id(page_data[idx].url))
    /\ SaveFails

\* The commit of the page raises.
CCommitFails ==
    /\ cpc = "commit"
    /\ SaveFails

\* The outer except of update_press_release_content: print, conn.close(),
\* return 0.
Abort ==
    /\ bpc' = "aborted"
    /\ work' = [work EXCEPT !["backfill"] = NoTxn]
    /\ fpc' = "idle"
    /\ UNCHANGED <<db, limit, entries, bi, updated_count, total_processed,
                   visited, nulls_at_start>>
    /\ UNCHANGED <<furl, max_retries, retries, attempts, fresult>>
    /\ UNCHANGED <<envVars, crawlVars>>

\* The UPDATE for the entry in hand raises.
BUpdateFails ==
    /\ bpc = "fetch"
    /\ fpc = "returned"
    /\ TruthyText(fresult)
    /\ Abort

\* The commit after an UPDATE raises.
BCommitFails ==
    /\ bpc = "commit"
    /\ Abort

\* The integer update_press_release_content returns.
ReturnValue == IF bpc = "aborted" THEN 0 ELSE updated_count

NextFaults ==
    \/ Next
    \/ CInsertFails \/ CCommitFails
    \/ BUpdateFails \/ BCommitFails

SpecFaults == Init /\ [][NextFaults]_vars /\ WF_vars(NextFaults)

\* Positions of the store errors in the crawl's trace.
ErrorAt(i) == log[i].op = "error"

\* C12 as stated: after a store write failed in the list crawl no further
\* page is requested, and after one failed in the backfill no further row
\* is fetched.
C12_StoreFailuresFatal ==
    /\ \A i, j \in 1..Len(log) : (ErrorAt(i) /\ i < j) => log[j].op # "get"
    /\ bpc = "aborted" => fpc = "idle"

\* C12 amended: a store failure ends the backfill (nothing of it moves once
\* it has aborted) but not the list crawl, which ends only when every page of
\* the range has been requested once, whatever failed on the way; and a row
\* whose fetch gave nothing is followed by the next row, the next SELECT, or
\* the end of the run at the limit.
C12_FatalForBackfillOnly ==
    [][ /\ bpc = "aborted" => (bfVars' = bfVars /\ fetchVars' = fetchVars)
        /\ cpc' = "done" => \A p \in start_page..end_page : GetCount(p)' = 1
        /\ (bpc = "fetch" /\ fpc = "returned" /\ ~TruthyText(fresult)
              /\ bfVars' # bfVars) =>
             /\ bpc' \in {"fetch", "select", "done"}
             /\ bpc' = "done" => AtLimit(limit, total_processed') ]_vars

\* C12 witness: the crawl has finished after a store error on a page that
\* was not the last, the page after it was requested, and the backfill has
\* aborted on a store error.
C12_Witness ==
    /\ cpc = "done"
    /\ \E i \in 1..Len(log) :
        /\ ErrorAt(i)
        /\ log[i].page < end_page
        /\ GetCount(log[i].page + 1) = 1
    /\ bpc = "aborted"

\* Rows whose content this invocation set and committed.
CommittedRows == {id \in visited : HasId(db, id) /\ RowOf(db, id).content # NULL}

\* C15 as stated: whichever way the invocation ended, the integer returned
\* is the number of rows whose content it set and committed.
C15_ReturnCount ==
    bpc \in {"done", "aborted"} => ReturnValue = Cardinality(CommittedRows)

====
